---- MODULE Spec2Model ----
(***************************************************************************)
(* State-machine model of biosimulators_cobrapy: exec_sed_task (core.py)   *)
(* and set_simulation_method_arg, validate_variables and                   *)
(* get_results_of_variables (utils.py).                                    *)
(*                                                                         *)
(* Text that the code lower-cases, quotes, sorts or parses is a sequence   *)
(* of ASCII code points, so that str.lower(), '`' + s + '`', sorted() and  *)
(* the list parser are computed, not assumed.  Identifiers that the code   *)
(* only compares for equality (KiSAO ids, variable ids, attribute and      *)
(* keyword names, solver statuses) are TLA+ strings.                       *)
(***************************************************************************)
EXTENDS Integers, Sequences, FiniteSets, TLC

\* ------------------------------------------------------------------ bounds
\* most parameter changes in simulation.algorithm.changes
MaxChanges == 2
\* most requested variables
MaxVars == 2
\* most identifiers in a reaction-list value
MaxListLen == 2
\* most leading characters of an enumeration name whose case is varied
MaxCased == 2

\* ------------------------------------------------------- Python built-ins
Range(s) == {s[i] : i \in 1..Len(s)}

\* the absent value of an optional (Python None) is the empty tuple
None == <<>>
Some(x) == <<x>>
IsNone(o) == Len(o) = 0
Get(o) == o[1]

\* a < b for str: lexicographic by code point, a proper prefix is smaller
StrLess(a, b) ==
    \E i \in 1..(Len(a) + 1) :
        /\ i <= Len(b)
        /\ \A j \in 1..(i - 1) : a[j] = b[j]
        /\ (i = Len(a) + 1 \/ a[i] < b[i])

\* sorted(iterable of str): ascending, duplicates kept
RECURSIVE sorted(_)
sorted(s) ==
    IF Len(s) = 0 THEN <<>>
    ELSE LET m == CHOOSE i \in 1..Len(s) :
                      \A j \in 1..Len(s) : ~StrLess(s[j], s[i])
             rest == [k \in 1..(Len(s) - 1) |-> IF k < m THEN s[k] ELSE s[k + 1]]
         IN  <<s[m]>> \o sorted(rest)

\* an iteration order of a set (CPython iterates a set in hash order; every
\* use below sorts the result, so the order chosen here is never observed)
RECURSIVE list(_)
list(S) ==
    IF S = {} THEN <<>>
    ELSE LET x == CHOOSE y \in S : TRUE IN <<x>> \o list(S \ {x})

\* str.lower() on ASCII text
lower(s) == [i \in 1..Len(s) |-> IF s[i] >= 65 /\ s[i] <= 90 THEN s[i] + 32 ELSE s[i]]

\* '`' + s + '`'
quote(s) == <<96>> \o s \o <<96>>

\* dict[key] = value on a dict kept as a function
SetItem(d, key, value) ==
    [k \in (DOMAIN d) \cup {key} |-> IF k = key THEN value ELSE d[k]]

\* ------------------------------------------- biosimulators_utils.utils.core
Min(S) == CHOOSE x \in S : \A y \in S : x <= y
Max(S) == CHOOSE x \in S : \A y \in S : x >= y

\* the items of the text between '[' and ']' of a JSON list of strings, read
\* from index i: "item","item",...  (None when the text is malformed)
RECURSIVE ParseItems(_, _)
ParseItems(t, i) ==
    IF i > Len(t) \/ t[i] # 34 THEN None
    ELSE LET closes == {j \in (i + 1)..Len(t) : t[j] = 34} IN
         IF closes = {} THEN None
         ELSE LET j == Min(closes)
                  item == SubSeq(t, i + 1, j - 1)
              IN  IF j = Len(t) THEN Some(<<item>>)
                  ELSE IF t[j + 1] # 44 THEN None
                  ELSE LET rest == ParseItems(t, j + 2) IN
                       IF IsNone(rest) THEN None
                       ELSE Some(<<item>> \o Get(rest))

\* json.loads(text) for a list of strings; None when it raises
json_loads(t) ==
    IF Len(t) < 2 \/ t[1] # 91 \/ t[Len(t)] # 93 THEN None
    ELSE IF Len(t) = 2 THEN Some(<<>>)
    ELSE ParseItems(SubSeq(t, 2, Len(t) - 1), 1)

\* float(text) succeeds: digits with at most one '.', at least one digit
IsFloatLiteral(t) ==
    /\ \A i \in 1..Len(t) : (t[i] >= 48 /\ t[i] <= 57) \/ t[i] = 46
    /\ Cardinality({i \in 1..Len(t) : t[i] = 46}) <= 1
    /\ \E i \in 1..Len(t) : t[i] >= 48 /\ t[i] <= 57

\* the decimal digits of t, read as a natural number
RECURSIVE DigitsValue(_)
DigitsValue(t) ==
    IF Len(t) = 0 THEN 0
    ELSE LET init == SubSeq(t, 1, Len(t) - 1)
             last == t[Len(t)]
         IN  IF last = 46 THEN DigitsValue(init)
             ELSE 10 * DigitsValue(init) + (last - 48)

\* mant / 10^exp without trailing zeros of the fraction: equal floats are
\* equal records
RECURSIVE Normalize(_, _)
Normalize(mant, exp) ==
    IF exp > 0 /\ mant % 10 = 0 THEN Normalize(mant \div 10, exp - 1)
    ELSE [mant |-> mant, exp |-> exp]

\* float(text)
float(t) ==
    LET dots == {i \in 1..Len(t) : t[i] = 46}
        exp == IF dots = {} THEN 0 ELSE Len(t) - Min(dots)
    IN  Normalize(DigitsValue(t), exp)

\* validate_str_value(value, type)
validate_str_value(value, type) ==
    CASE type = "string" -> TRUE
      [] type = "float" -> IsFloatLiteral(value)
      [] type = "list" -> ~IsNone(json_loads(value))

\* parse_value(value, type), for a value validate_str_value accepts
parse_value(value, type) ==
    CASE type = "string" -> value
      [] type = "float" -> float(value)
      [] type = "list" -> Get(json_loads(value))

\* ------------------------------------------------------------ data_model
\* names of the members of the solver enumeration: "cplex", "glpk",
\* "glpk_exact"
Solver ==
    << [name |-> <<99, 112, 108, 101, 120>>, value |-> "CPLEX"],
       [name |-> <<103, 108, 112, 107>>, value |-> "GLPK"],
       [name |-> <<103, 108, 112, 107, 95, 101, 120, 97, 99, 116>>, value |-> "GLPK_EXACT"] >>

\* parameters: fraction of optimum (keyword argument), solver (attribute of
\* the model, enumerated), reaction list (keyword argument)
ParFractionOfOptimum ==
    [kisao_id |-> "KISAO_0000531", name |-> "fraction_of_optimum",
     description |-> "fraction of optimum", type |-> "float", enum |-> <<>>,
     alg_arg |-> "fraction_of_optimum", model_arg |-> ""]
ParSolver ==
    [kisao_id |-> "KISAO_0000553", name |-> "solver",
     description |-> "solver", type |-> "string", enum |-> Solver,
     alg_arg |-> "", model_arg |-> "solver"]
ParReactionList ==
    [kisao_id |-> "KISAO_0000534", name |-> "reaction_list",
     description |-> "reactions", type |-> "list", enum |-> <<>>,
     alg_arg |-> "reaction_list", model_arg |-> ""]

\* variable patterns; target is the text a target must start with
\* (re.match anchors at the start only): "obj", "r:R10", "r:"
PatObjective ==
    [description |-> <<111, 98, 106, 101, 99, 116, 105, 118, 101>>,
     target |-> <<111, 98, 106>>, target_type |-> "objective",
     get_result |-> "objective_value"]
PatShadowPrice ==
    [description |-> <<115, 104, 97, 100, 111, 119>>,
     target |-> <<114, 58, 82, 49, 48>>, target_type |-> "species",
     get_result |-> "shadow_price"]
PatFlux ==
    [description |-> <<102, 108, 117, 120>>,
     target |-> <<114, 58>>, target_type |-> "reaction",
     get_result |-> "flux"]
PatMinFlux ==
    [description |-> <<109, 105, 110>>,
     target |-> <<114, 58>>, target_type |-> "reaction",
     get_result |-> "min_flux"]

\* the registry, in its declared order
KISAO_ALGORITHMS_PARAMETERS_MAP ==
    << [kisao_id |-> "KISAO_0000437", name |-> "FBA",
        parameters |-> <<ParFractionOfOptimum, ParSolver>>,
        variables |-> <<PatObjective, PatShadowPrice, PatFlux>>],
       [kisao_id |-> "KISAO_0000526", name |-> "FVA",
        parameters |-> <<ParSolver, ParReactionList>>,
        variables |-> <<PatMinFlux>>] >>

\* dict.get(key, None) on a dict kept as the sequence of its values, each
\* carrying its key in kisao_id
dict_get(d, key) ==
    LET hits == {i \in 1..Len(d) : d[i].kisao_id = key} IN
    IF hits = {} THEN None ELSE Some(d[Min(hits)])

\* ------------------------------------------------------------- exceptions
NoError == [kind |-> "none", value |-> <<>>, listed |-> <<>>, valid |-> <<>>]
Raise(kind, value, listed, valid) ==
    [kind |-> kind, value |-> value, listed |-> listed, valid |-> valid]

\* ------------------------------------------------------------------ utils
\* set_simulation_method_arg from line 48 on, for a parameter the algorithm
\* has: the exception raised (NoError when none), and the model and the
\* keyword arguments as the call leaves them
set_parameter(method_props, parameter, argument_change, model, model_method_kw_args) ==
    LET Fails(e) == [error |-> e, model |-> model,
                     model_method_kw_args |-> model_method_kw_args]
        value == argument_change.new_value
        enum == parameter.enum
        members == {enum[i].name : i \in 1..Len(enum)}
    IN
    IF ~validate_str_value(value, parameter.type)
    THEN Fails(Raise("InvalidParameterValue", value, <<>>, <<>>))
    ELSE IF Len(enum) > 0 /\ lower(value) \notin members
    THEN Fails(Raise("InvalidParameterValue", value, <<>>,
                     sorted([i \in 1..Len(enum) |-> quote(enum[i].name)])))
    ELSE
    LET typed == IF Len(enum) > 0
                 THEN enum[CHOOSE i \in 1..Len(enum) : enum[i].name = lower(value)].value
                 ELSE parse_value(value, parameter.type)
        reaction_ids == Range(model.reactions)
        invalid_values == Range(typed) \ reaction_ids
    IN
    IF parameter.alg_arg = "reaction_list" /\ invalid_values # {}
    THEN Fails(Raise("InvalidParameterValue", value,
                     sorted([i \in 1..Cardinality(invalid_values) |->
                                quote(list(invalid_values)[i])]),
                     sorted([i \in 1..Len(model.reactions) |->
                                quote(model.reactions[i])])))
    ELSE
    LET parsed_value == IF parameter.alg_arg = "reaction_list"
                        THEN sorted(list(Range(typed)))
                        ELSE typed
    IN
    IF parameter.alg_arg # ""
    THEN [error |-> NoError, model |-> model,
          model_method_kw_args |->
              SetItem(model_method_kw_args, parameter.alg_arg, parsed_value)]
    ELSE [error |-> NoError,
          model |-> [model EXCEPT !.attrs = SetItem(@, parameter.model_arg, parsed_value)],
          model_method_kw_args |-> model_method_kw_args]

\* the exception of line 46 of utils.py
UnsupportedParameter(method_props, parameter_kisao_id) ==
    Raise("UnsupportedParameter", parameter_kisao_id, <<>>,
          [i \in 1..Len(method_props.parameters) |->
              <<method_props.parameters[i].kisao_id,
                method_props.parameters[i].name,
                method_props.parameters[i].description>>])

\* set_simulation_method_arg that sets a parameter the algorithm does not
\* have as an attribute of the model before it raises
set_simulation_method_arg_sets_unknown(method_props, argument_change, model, model_method_kw_args) ==
    LET parameter_kisao_id == argument_change.kisao_id
        found == dict_get(method_props.parameters, parameter_kisao_id)
    IN  IF IsNone(found)
        THEN [error |-> UnsupportedParameter(method_props, parameter_kisao_id),
              model |-> [model EXCEPT !.attrs = SetItem(@, parameter_kisao_id,
                                                        argument_change.new_value)],
              model_method_kw_args |-> model_method_kw_args]
        ELSE set_parameter(method_props, Get(found), argument_change, model,
                           model_method_kw_args)

\* set_simulation_method_arg: the exception raised (NoError when none), and
\* the model and the keyword arguments as the call leaves them
set_simulation_method_arg(method_props, argument_change, model, model_method_kw_args) ==
    LET parameter_kisao_id == argument_change.kisao_id
        found == dict_get(method_props.parameters, parameter_kisao_id)
    IN  IF IsNone(found)
        THEN [error |-> UnsupportedParameter(method_props, parameter_kisao_id),
              model |-> model,
              model_method_kw_args |-> model_method_kw_args]
        ELSE set_parameter(method_props, Get(found), argument_change, model,
                           model_method_kw_args)

\* re.match(pattern, string) for a pattern of literal characters: the string
\* starts with the pattern
re_match(pattern, string) ==
    /\ Len(pattern) <= Len(string)
    /\ \A i \in 1..Len(pattern) : pattern[i] = string[i]

\* '{}: `{}`'.format(description, target)
FormatPattern(variable_pattern) ==
    variable_pattern.description \o <<58, 32>> \o quote(variable_pattern.target)

\* validate_variables whose flag valid is set once, before the loop over the
\* variables: a target counts as matched once any earlier target matched
validate_variables_valid_not_reset(method, variables) ==
    LET Matches(j) ==
            /\ variables[j].symbol = ""
            /\ \E k \in 1..Len(method.variables) :
                   re_match(method.variables[k].target, variables[j].target)
        invalid_symbols ==
            {variables[i].symbol : i \in {j \in 1..Len(variables) : variables[j].symbol # ""}}
        invalid_targets ==
            {variables[i].target :
                i \in {j \in 1..Len(variables) :
                          /\ variables[j].symbol = ""
                          /\ ~\E h \in 1..j : Matches(h)}}
    IN
    IF invalid_symbols # {}
    THEN Raise("UnsupportedSymbol", <<method.name, method.kisao_id>>, <<>>, <<>>)
    ELSE IF invalid_targets # {}
    THEN Raise("UnsupportedVariable", <<method.name, method.kisao_id>>,
               sorted([i \in 1..Cardinality(invalid_targets) |->
                          quote(list(invalid_targets)[i])]),
               sorted([i \in 1..Len(method.variables) |->
                          FormatPattern(method.variables[i])]))
    ELSE NoError

\* validate_variables that reports unmatched targets before symbols
validate_variables_targets_first(method, variables) ==
    LET invalid_symbols ==
            {variables[i].symbol : i \in {j \in 1..Len(variables) : variables[j].symbol # ""}}
        invalid_targets ==
            {variables[i].target :
                i \in {j \in 1..Len(variables) :
                          /\ variables[j].symbol = ""
                          /\ ~\E k \in 1..Len(method.variables) :
                                 re_match(method.variables[k].target, variables[j].target)}}
    IN
    IF invalid_targets # {}
    THEN Raise("UnsupportedVariable", <<method.name, method.kisao_id>>,
               sorted([i \in 1..Cardinality(invalid_targets) |->
                          quote(list(invalid_targets)[i])]),
               sorted([i \in 1..Len(method.variables) |->
                          FormatPattern(method.variables[i])]))
    ELSE IF invalid_symbols # {}
    THEN Raise("UnsupportedSymbol", <<method.name, method.kisao_id>>, <<>>, <<>>)
    ELSE NoError

\* validate_variables: the exception raised (NoError when none)
validate_variables(method, variables) ==
    LET invalid_symbols ==
            {variables[i].symbol : i \in {j \in 1..Len(variables) : variables[j].symbol # ""}}
        invalid_targets ==
            {variables[i].target :
                i \in {j \in 1..Len(variables) :
                          /\ variables[j].symbol = ""
                          /\ ~\E k \in 1..Len(method.variables) :
                                 re_match(method.variables[k].target, variables[j].target)}}
    IN
    IF invalid_symbols # {}
    THEN Raise("UnsupportedSymbol", <<method.name, method.kisao_id>>, <<>>, <<>>)
    ELSE IF invalid_targets # {}
    THEN Raise("UnsupportedVariable", <<method.name, method.kisao_id>>,
               sorted([i \in 1..Cardinality(invalid_targets) |->
                          quote(list(invalid_targets)[i])]),
               sorted([i \in 1..Len(method.variables) |->
                          FormatPattern(method.variables[i])]))
    ELSE NoError

\* numpy.array(result)
numpy_array(result) == [array |-> result]

\* variable_pattern['get_result'](solution, variable_target_id): the value
\* the extraction function named get_result reads for that id
CallGetResult(variable_pattern, solution, variable_target_id) ==
    [get_result |-> variable_pattern.get_result, target_id |-> variable_target_id]

\* get_results_of_variable without the break of line 159: the last matching
\* pattern decides
get_results_of_variable_no_break(method, variable, target_x_paths_ids, solution, result) ==
    LET target == variable.target
        matching == {k \in 1..Len(method.variables) :
                        re_match(method.variables[k].target, target)}
    IN
    IF variable.symbol # "" /\ Len(method.variables) > 0
    THEN [result |-> result, assigned |-> FALSE,
          error |-> Raise("TypeError", <<>>, <<>>, <<>>)]
    ELSE IF matching = {}
    THEN [result |-> result, assigned |-> FALSE,
          error |-> IF IsNone(result)
                    THEN Raise("UnboundLocalError", <<>>, <<>>, <<>>)
                    ELSE NoError]
    ELSE
    LET variable_pattern == method.variables[Max(matching)]
        variable_target_id ==
            IF variable_pattern.target_type \in {"reaction", "species"}
            THEN Some(target_x_paths_ids[target])
            ELSE None
    IN  [result |-> Some(CallGetResult(variable_pattern, solution, variable_target_id)),
         assigned |-> TRUE, error |-> NoError]

\* one iteration of the loop of get_results_of_variables over a variable:
\* the local result after the inner loop (None while never assigned),
\* whether the inner loop assigned it in this iteration, and the exception
\* raised (re.match on a target of None, or storing an unassigned local)
get_results_of_variable(method, variable, target_x_paths_ids, solution, result) ==
    LET target == variable.target
        matching == {k \in 1..Len(method.variables) :
                        re_match(method.variables[k].target, target)}
    IN
    IF variable.symbol # "" /\ Len(method.variables) > 0
    THEN [result |-> result, assigned |-> FALSE,
          error |-> Raise("TypeError", <<>>, <<>>, <<>>)]
    ELSE IF matching = {}
    THEN [result |-> result, assigned |-> FALSE,
          error |-> IF IsNone(result)
                    THEN Raise("UnboundLocalError", <<>>, <<>>, <<>>)
                    ELSE NoError]
    ELSE
    LET variable_pattern == method.variables[Min(matching)]
        variable_target_id ==
            IF variable_pattern.target_type \in {"reaction", "species"}
            THEN Some(target_x_paths_ids[target])
            ELSE None
    IN  [result |-> Some(CallGetResult(variable_pattern, solution, variable_target_id)),
         assigned |-> TRUE, error |-> NoError]

\* ----------------------------------------------------------------- inputs
\* reaction ids "R1" and "R10", and "X9", an id no model has
R1 == <<82, 49>>
R10 == <<82, 49, 48>>
X9 == <<88, 57>>

\* json.dumps of a list of strings, without spaces
RECURSIVE JoinQuoted(_)
JoinQuoted(ids) ==
    IF Len(ids) = 0 THEN <<>>
    ELSE <<34>> \o Head(ids) \o <<34>>
         \o (IF Len(ids) = 1 THEN <<>> ELSE <<44>> \o JoinQuoted(Tail(ids)))
json_dumps(ids) == <<91>> \o JoinQuoted(ids) \o <<93>>

\* every sequence over S of length at most n
SeqsUpTo(S, n) == UNION {[1..k -> S] : k \in 0..n}

\* the texts that differ from name only in the case of some of its first
\* MaxCased characters
Casings(name) ==
    {[i \in 1..Len(name) |->
         IF i \in U /\ name[i] >= 97 /\ name[i] <= 122 THEN name[i] - 32 ELSE name[i]] :
     U \in SUBSET (1..(IF Len(name) < MaxCased THEN Len(name) ELSE MaxCased))}

\* the reactions of the models read: R10 before R1, or R1 alone
ModelInputs == {<<R10, R1>>, <<R1>>}

\* algorithm ids: the registered ones and one that is not registered
AlgorithmInputs == {"KISAO_0000437", "KISAO_0000526", "KISAO_0000019"}

\* values of parameter changes: "0.5", "1", "0.50"; "glpk", "gurobi" and
\* "glp" (the last two name no member of Solver) and the casings of the member
\* names; the reaction lists
FloatValues == { <<48, 46, 53>>, <<49>>, <<48, 46, 53, 48>> }
Glpk == <<103, 108, 112, 107>>
NoMemberValues == { <<103, 117, 114, 111, 98, 105>>, <<103, 108, 112>> }
CasedValues == UNION {Casings(Solver[i].name) : i \in 1..Len(Solver)}
ListValues == {json_dumps(l) : l \in SeqsUpTo({R1, R10, X9}, MaxListLen)}

\* parameter changes: each parameter with the values of its type and one
\* value that is not of its type, and a parameter no algorithm has
ChangeInputs ==
    {[kisao_id |-> "KISAO_0000531", new_value |-> v] : v \in FloatValues \cup {Glpk}}
    \cup {[kisao_id |-> "KISAO_0000553", new_value |-> v] :
             v \in CasedValues \cup NoMemberValues}
    \cup {[kisao_id |-> "KISAO_0000534", new_value |-> v] : v \in ListValues \cup {Glpk}}
    \cup {[kisao_id |-> "KISAO_0000209", new_value |-> <<49>>]}

\* targets "obj", "r:R1", "r:R10" and two that match no pattern, "x", "x1"
TargetInputs ==
    { <<111, 98, 106>>, <<114, 58, 82, 49>>, <<114, 58, 82, 49, 48>>,
      <<120>>, <<120, 49>> }

\* requested variables: a target and no symbol, or a symbol and no target
\* (validate_data_generator_variables admits nothing else)
VariableInputs ==
    {[id |-> id, symbol |-> "", target |-> t] :
        id \in {"v1", "v2"}, t \in TargetInputs}
    \cup {[id |-> id, symbol |-> "urn:sedml:symbol:time", target |-> <<>>] :
             id \in {"v1", "v2"}}

\* solver statuses
StatusInputs == {"optimal", "infeasible", "unbounded"}

\* validate_data_generator_variable_xpaths(variables, source, attr='id'): the
\* id of the object of each target, here the text after the last ':'
XPathId(target) ==
    LET colons == {i \in 1..Len(target) : target[i] = 58} IN
    IF colons = {} THEN target
    ELSE SubSeq(target, Max(colons) + 1, Len(target))
validate_data_generator_variable_xpaths(vars) ==
    [t \in {vars[i].target : i \in {j \in 1..Len(vars) : vars[j].symbol = ""}} |->
        XPathId(t)]

\* ------------------------------------------------------------------ state
VARIABLES
    pc,                  \* the statement of exec_sed_task that runs next
    algorithm_kisao_id,  \* simulation.algorithm.kisao_id
    model0,              \* the model as read_sbml_model returned it
    model,               \* the model: its reactions and attributes
    method_props,        \* the registry entry, None before the lookup
    method_kw_args,      \* keyword arguments collected for the method
    changes_done,        \* number of changes the loop has taken
    method_arg_change,   \* the loop variable, None outside the loop
    variables,           \* the requested variables
    solution,            \* the solution, None before the method ran
    idx,                 \* number of variables get_results_of_variables has taken
    result,              \* the local result of get_results_of_variables
    assigned,            \* whether the last inner loop assigned result
    variable_results,    \* the results collected
    returned,            \* what exec_sed_task returned, None before
    error,               \* the exception that ended the task
    trace                \* the stages run so far, each with its outcome

vars == <<pc, algorithm_kisao_id, model0, model, method_props, method_kw_args,
          changes_done, method_arg_change, variables, solution, idx, result,
          assigned, variable_results, returned, error, trace>>

\* ------------------------------------------------------------------- core
\* exec_sed_task_next with the solver run before the variables are validated
\* (lines 97 and 100 of core.py exchanged)
exec_sed_task_next_solve_first(stage, raised) ==
    IF raised THEN "failed"
    ELSE CASE stage = "lookup" -> "params"
           [] stage = "params" -> "solve"
           [] stage = "solve" -> "validate"
           [] stage = "validate" -> "status"
           [] stage = "status" -> "extract"
           [] stage = "extract" -> "done"

\* the statement of exec_sed_task that follows a stage: the stages run in
\* the order of the function body, and an exception leaves the function
exec_sed_task_next(stage, raised) ==
    IF raised THEN "failed"
    ELSE CASE stage = "lookup" -> "params"
           [] stage = "params" -> "validate"
           [] stage = "validate" -> "solve"
           [] stage = "solve" -> "status"
           [] stage = "status" -> "extract"
           [] stage = "extract" -> "done"

\* lookup whose message leaves out the last registered algorithm
lookup_short_listing(kisao_id) ==
    LET found == dict_get(KISAO_ALGORITHMS_PARAMETERS_MAP, kisao_id) IN
    [method_props |-> found,
     error |-> IF IsNone(found)
               THEN Raise("NotFound", kisao_id, <<>>,
                          [i \in 1..(Len(KISAO_ALGORITHMS_PARAMETERS_MAP) - 1) |->
                              <<KISAO_ALGORITHMS_PARAMETERS_MAP[i].kisao_id,
                                KISAO_ALGORITHMS_PARAMETERS_MAP[i].name>>])
               ELSE NoError]

\* KISAO_ALGORITHMS_PARAMETERS_MAP.get(algorithm_kisao_id, None), and the
\* exception raised when it is None
lookup(kisao_id) ==
    LET found == dict_get(KISAO_ALGORITHMS_PARAMETERS_MAP, kisao_id) IN
    [method_props |-> found,
     error |-> IF IsNone(found)
               THEN Raise("NotFound", kisao_id, <<>>,
                          [i \in 1..Len(KISAO_ALGORITHMS_PARAMETERS_MAP) |->
                              <<KISAO_ALGORITHMS_PARAMETERS_MAP[i].kisao_id,
                                KISAO_ALGORITHMS_PARAMETERS_MAP[i].name>>])
               ELSE NoError]

\* the status check that rejects only 'infeasible'
status_is_infeasible(status) == status = "infeasible"

\* solution.status != 'optimal'
status_not_optimal(status) == status # "optimal"

Init ==
    /\ pc = "lookup"
    /\ algorithm_kisao_id \in AlgorithmInputs
    /\ \E reactions \in ModelInputs :
           model0 = [reactions |-> reactions, attrs |-> [a \in {"solver"} |-> "GLPK"]]
    /\ model = model0
    /\ method_props = None
    /\ method_kw_args = <<>>
    /\ changes_done = 0
    /\ method_arg_change = None
    /\ variables = <<>>
    /\ solution = None
    /\ idx = 0
    /\ result = None
    /\ assigned = FALSE
    /\ variable_results = <<>>
    /\ returned = None
    /\ error = NoError
    /\ trace = <<>>

Stage(stage, ok) == [stage |-> stage, ok |-> ok]

\* core.py 80-89
Lookup ==
    /\ pc = "lookup"
    /\ LET r == lookup(algorithm_kisao_id)
           raised == r.error.kind # "none"
       IN  /\ method_props' = r.method_props
           /\ error' = r.error
           /\ pc' = exec_sed_task_next("lookup", raised)
           /\ trace' = Append(trace, Stage("lookup", ~raised))
    /\ UNCHANGED <<algorithm_kisao_id, model0, model, method_kw_args, changes_done,
                   method_arg_change, variables, solution, idx, result, assigned,
                   variable_results, returned>>

\* core.py 93-94: the loop takes the next change
SetSimulationMethodArg ==
    /\ pc = "params"
    /\ changes_done < MaxChanges
    /\ \E change \in ChangeInputs :
           LET r == set_simulation_method_arg(Get(method_props), change, model,
                                              method_kw_args)
               raised == r.error.kind # "none"
           IN  /\ method_arg_change' = Some(change)
               /\ model' = r.model
               /\ method_kw_args' = r.model_method_kw_args
               /\ error' = r.error
               /\ pc' = IF raised THEN exec_sed_task_next("params", TRUE) ELSE pc
               /\ trace' = Append(trace, Stage("change", ~raised))
    /\ changes_done' = changes_done + 1
    /\ UNCHANGED <<algorithm_kisao_id, model0, method_props, variables, solution,
                   idx, result, assigned, variable_results, returned>>

\* core.py 93: the changes are exhausted (the loop variable is not read again)
EndChanges ==
    /\ pc = "params"
    /\ pc' = exec_sed_task_next("params", FALSE)
    /\ method_arg_change' = None
    /\ trace' = Append(trace, Stage("params", TRUE))
    /\ UNCHANGED <<algorithm_kisao_id, model0, model, method_props, method_kw_args,
                   changes_done, variables, solution, idx, result, assigned,
                   variable_results, returned, error>>

\* core.py 97 (nothing reads the argument variables before this statement,
\* so its value is drawn here)
ValidateVariables ==
    /\ pc = "validate"
    /\ \E requested \in SeqsUpTo(VariableInputs, MaxVars) :
           LET e == validate_variables(Get(method_props), requested)
               raised == e.kind # "none"
           IN  /\ variables' = requested
               /\ error' = e
               /\ pc' = exec_sed_task_next("validate", raised)
               /\ trace' = Append(trace, Stage("validate", ~raised))
    /\ UNCHANGED <<algorithm_kisao_id, model0, model, method_props, method_kw_args,
                   changes_done, method_arg_change, solution, idx, result, assigned,
                   variable_results, returned>>

\* core.py 100: the solver runs and yields some status
InvokeMethod ==
    /\ pc = "solve"
    /\ \E status \in StatusInputs : solution' = Some([status |-> status])
    /\ pc' = exec_sed_task_next("solve", FALSE)
    /\ trace' = Append(trace, Stage("solve", TRUE))
    /\ UNCHANGED <<algorithm_kisao_id, model0, model, method_props, method_kw_args,
                   changes_done, method_arg_change, variables, idx, result, assigned,
                   variable_results, returned, error>>

\* core.py 103-105
CheckStatus ==
    /\ pc = "status"
    /\ LET raised == status_not_optimal(Get(solution).status) IN
           /\ error' = IF raised
                       THEN Raise("OptimizationFailed", Get(solution).status, <<>>, <<>>)
                       ELSE NoError
           /\ pc' = exec_sed_task_next("status", raised)
           /\ trace' = Append(trace, Stage("status", ~raised))
    /\ UNCHANGED <<algorithm_kisao_id, model0, model, method_props, method_kw_args,
                   changes_done, method_arg_change, variables, solution, idx, result,
                   assigned, variable_results, returned>>

\* utils.py 149-161: the loop takes the next variable
GetResultsOfVariable ==
    /\ pc = "extract"
    /\ idx < Len(variables)
    /\ LET variable == variables[idx + 1]
           r == get_results_of_variable(Get(method_props), variable,
                                        validate_data_generator_variable_xpaths(variables),
                                        Get(solution), result)
           raised == r.error.kind # "none"
       IN  /\ result' = r.result
           /\ assigned' = r.assigned
           /\ error' = r.error
           /\ variable_results' =
                  IF raised THEN variable_results
                  ELSE SetItem(variable_results, variable.id, numpy_array(Get(r.result)))
           /\ pc' = IF raised THEN exec_sed_task_next("extract", TRUE) ELSE pc
           /\ trace' = Append(trace, Stage("extract", ~raised))
    /\ idx' = idx + 1
    /\ UNCHANGED <<algorithm_kisao_id, model0, model, method_props, method_kw_args,
                   changes_done, method_arg_change, variables, solution, returned>>

\* utils.py 163 and core.py 108
ReturnResults ==
    /\ pc = "extract"
    /\ idx = Len(variables)
    /\ returned' = Some(variable_results)
    /\ pc' = exec_sed_task_next("extract", FALSE)
    /\ trace' = Append(trace, Stage("return", TRUE))
    /\ UNCHANGED <<algorithm_kisao_id, model0, model, method_props, method_kw_args,
                   changes_done, method_arg_change, variables, solution, idx, result,
                   assigned, variable_results, error>>

Next ==
    \/ Lookup
    \/ SetSimulationMethodArg
    \/ EndChanges
    \/ ValidateVariables
    \/ InvokeMethod
    \/ CheckStatus
    \/ GetResultsOfVariable
    \/ ReturnResults

Spec == Init /\ [][Next]_vars

\* ----------------------------------------------------------------- claims
\* positions of a stage in the trace
At(stage) == {i \in 1..Len(trace) : trace[i].stage = stage}

\* a requested variable has no symbol and a target some pattern of the
\* algorithm matches
Supported(method, variable) ==
    /\ variable.symbol = ""
    /\ \E k \in 1..Len(method.variables) :
           re_match(method.variables[k].target, variable.target)

StageErrors ==
    {"NotFound", "UnsupportedParameter", "InvalidParameterValue",
     "UnsupportedSymbol", "UnsupportedVariable"}

\* C1: the solver is invoked at most once, and only after the lookup, every
\* parameter change and the validation of the variables have succeeded, in
\* that order; when one of these stages fails the solver is never invoked
\* and nothing is returned.
C1_SolverAfterStages ==
    /\ Cardinality(At("solve")) <= 1
    /\ \A i \in At("solve") :
           /\ i >= 4
           /\ trace[1] = Stage("lookup", TRUE)
           /\ \A j \in 2..(i - 3) : trace[j] = Stage("change", TRUE)
           /\ trace[i - 2] = Stage("params", TRUE)
           /\ trace[i - 1] = Stage("validate", TRUE)
           /\ ~IsNone(method_props)
           /\ \A k \in 1..Len(variables) : Supported(Get(method_props), variables[k])
    /\ error.kind \in StageErrors => At("solve") = {} /\ IsNone(returned)

\* C1: the solver has run after a parameter change and with a variable requested
C1_Witness ==
    /\ pc = "status"
    /\ changes_done >= 1
    /\ Len(variables) >= 1

\* C2: after the status check, a status other than 'optimal' has ended the
\* task with the optimization-failed error carrying that status, extraction
\* was never entered and nothing is returned; with 'optimal' the task went on
\* to extraction.
C2_StatusCheck ==
    At("status") # {} =>
        LET status == Get(solution).status IN
        IF status # "optimal"
        THEN /\ pc = "failed"
             /\ error = Raise("OptimizationFailed", status, <<>>, <<>>)
             /\ At("extract") = {} /\ At("return") = {}
             /\ idx = 0
             /\ IsNone(returned)
        ELSE /\ error.kind # "OptimizationFailed"
             /\ pc \in {"extract", "done"} \/ (pc = "failed" /\ At("extract") # {})

\* C2: the task failed on the status 'unbounded'
C2_Witness ==
    /\ error.kind = "OptimizationFailed"
    /\ error.value = "unbounded"

\* C4: after the lookup, an id that is no key of the registry has failed with
\* the not-found error, which enumerates exactly the registered ids, each
\* with its name; an id that is a key has yielded that id's entry.
C4_Lookup ==
    At("lookup") # {} =>
        LET registered == Range(KISAO_ALGORITHMS_PARAMETERS_MAP)
            mine == {e \in registered : e.kisao_id = algorithm_kisao_id}
        IN  IF mine = {}
            THEN /\ pc = "failed"
                 /\ error.kind = "NotFound"
                 /\ Range(error.valid) = {<<e.kisao_id, e.name>> : e \in registered}
                 /\ IsNone(method_props)
            ELSE /\ error.kind # "NotFound"
                 /\ ~IsNone(method_props)
                 /\ Get(method_props) \in mine

\* C4: the lookup of an unregistered id has failed
C4_Witness ==
    /\ error.kind = "NotFound"
    /\ algorithm_kisao_id = "KISAO_0000019"

\* C7: after validation, when some requested variable has a symbol the
\* failure is UnsupportedSymbol, whatever the other variables are; the
\* failure is UnsupportedVariable only when no variable has a symbol.
C7_SymbolPrecedence ==
    At("validate") # {} =>
        LET anySymbol == \E i \in 1..Len(variables) : variables[i].symbol # "" IN
        /\ anySymbol => pc = "failed" /\ error.kind = "UnsupportedSymbol"
        /\ error.kind = "UnsupportedVariable" => ~anySymbol

\* C7: validation failed on a symbol that follows a variable whose target
\* matches no pattern
C7_Witness ==
    /\ error.kind = "UnsupportedSymbol"
    /\ Len(variables) = 2
    /\ variables[1].symbol = ""
    /\ ~Supported(Get(method_props), variables[1])
    /\ variables[2].symbol # ""

\* the value get_results_of_variables is to store for a variable: that of the
\* extraction function of the first pattern, in declared order, that matches
\* its target, called with the id of the target for a reaction or a species
\* and with no id otherwise
Expected(method, variable, idLookup) ==
    LET first == CHOOSE k \in 1..Len(method.variables) :
                     /\ re_match(method.variables[k].target, variable.target)
                     /\ \A j \in 1..(k - 1) :
                            ~re_match(method.variables[j].target, variable.target)
        pattern == method.variables[first]
    IN  [array |->
            [get_result |-> pattern.get_result,
             target_id |-> IF pattern.target_type \in {"reaction", "species"}
                           THEN <<idLookup[variable.target]>>
                           ELSE <<>>]]

\* C9: the keys of the mapping are the ids of the variables taken so far,
\* each id holds the value of the first matching pattern for the last
\* variable with that id, and what is returned is the mapping of all the
\* requested variables.
C9_Extraction ==
    pc \in {"extract", "done"} =>
        /\ DOMAIN variable_results = {variables[i].id : i \in 1..idx}
        /\ \A i \in 1..idx :
               (\A j \in (i + 1)..idx : variables[j].id # variables[i].id)
               => variable_results[variables[i].id] =
                      Expected(Get(method_props), variables[i],
                               validate_data_generator_variable_xpaths(variables))
        /\ pc = "done" => idx = Len(variables) /\ returned = Some(variable_results)

\* C9: results were returned for two variables that share an id, the first
\* of them with a target that two patterns match
C9_Witness ==
    /\ pc = "done"
    /\ Len(variables) = 2
    /\ variables[1].id = variables[2].id
    /\ variables[1].target # variables[2].target
    /\ Cardinality({k \in 1..Len(Get(method_props).variables) :
                       re_match(Get(method_props).variables[k].target,
                                variables[1].target)}) = 2

\* C10: whenever extraction is reached every requested variable has no
\* symbol and a target some pattern matches, so each iteration assigns
\* result and none stores an unassigned or a left-over value.
C10_ValidationCoversExtraction ==
    (pc \in {"extract", "done"} \/ At("extract") # {}) =>
        /\ \A i \in 1..Len(variables) : Supported(Get(method_props), variables[i])
        /\ error.kind \notin {"UnboundLocalError", "TypeError"}
        /\ idx > 0 => assigned /\ ~IsNone(result)

\* C10: extraction has taken two variables
C10_Witness ==
    /\ pc = "extract"
    /\ idx = 2
    /\ assigned

\* C3 as stated: after UnsupportedParameter the model is as it was read and
\* the solver has not run.
C3_ModelUnmodified ==
    error.kind = "UnsupportedParameter" => model = model0 /\ At("solve") = {}

\* C3 amended: the call that raises UnsupportedParameter leaves the model and
\* the keyword arguments as they were before that call and ends the task
\* with no solver run; the reactions of the model are those read, and an
\* attribute differs from the model read only if a parameter of the algorithm
\* routes to it.
C3_FailingCallUnmodified ==
    [][error'.kind = "UnsupportedParameter" =>
          /\ model' = model
          /\ method_kw_args' = method_kw_args
          /\ pc' = "failed"
          /\ At("solve")' = {}
          /\ model'.reactions = model0.reactions
          /\ \A a \in DOMAIN model'.attrs :
                 (a \notin DOMAIN model0.attrs \/ model'.attrs[a] # model0.attrs[a])
                 => \E i \in 1..Len(Get(method_props).parameters) :
                        Get(method_props).parameters[i].model_arg = a]_vars

\* C3: UnsupportedParameter was raised after an earlier change had set an
\* attribute of the model
C3_Witness ==
    /\ error.kind = "UnsupportedParameter"
    /\ changes_done = 2
    /\ model # model0

\* the text between the backticks of an entry of a listing
Unquote(entry) == SubSeq(entry, 2, Len(entry) - 1)
Unquoted(listing) == [i \in 1..Len(listing) |-> Unquote(listing[i])]

\* each element is smaller than the next
Ascending(s) == \A i \in 1..(Len(s) - 1) : StrLess(s[i], s[i + 1])

\* a and b are equal up to the case of letters
CaseInsensitiveEq(a, b) ==
    /\ Len(a) = Len(b)
    /\ \A i \in 1..Len(a) :
           \/ a[i] = b[i]
           \/ a[i] >= 65 /\ a[i] <= 90 /\ b[i] = a[i] + 32
           \/ b[i] >= 65 /\ b[i] <= 90 /\ a[i] = b[i] + 32

\* the loop of core.py 93-94 has just taken a change for a parameter the
\* algorithm has
InChange ==
    /\ ~IsNone(method_arg_change)
    /\ ~IsNone(dict_get(Get(method_props).parameters, Get(method_arg_change).kisao_id))
ChangedParameter ==
    Get(dict_get(Get(method_props).parameters, Get(method_arg_change).kisao_id))

\* what C5 says of a change of the reaction list whose value parses to ids,
\* with Listed(s) the order asked of a listing s of the message
ReactionListChange(Listed(_)) ==
    (/\ InChange
     /\ ChangedParameter.alg_arg = "reaction_list"
     /\ ~IsNone(json_loads(Get(method_arg_change).new_value)))
    => LET parsed == Range(Get(json_loads(Get(method_arg_change).new_value)))
           missing == parsed \ Range(model.reactions)
           failed == pc = "failed"
       IN  /\ failed <=> missing # {}
           /\ failed => /\ error.kind = "InvalidParameterValue"
                        /\ Range(Unquoted(error.listed)) = missing
                        /\ Len(error.listed) = Cardinality(missing)
                        /\ Listed(error.listed)
                        /\ Range(Unquoted(error.valid)) = Range(model.reactions)
                        /\ Len(error.valid) = Len(model.reactions)
                        /\ Listed(error.valid)
           /\ ~failed => /\ error.kind = "none"
                         /\ "reaction_list" \in DOMAIN method_kw_args
                         /\ Range(method_kw_args["reaction_list"]) = parsed
                         /\ Ascending(method_kw_args["reaction_list"])

IdsAscending(listing) == Ascending(Unquoted(listing))

\* C5: a change of the reaction list fails with InvalidParameterValue iff a
\* parsed id is no reaction of the model; the failure lists exactly the
\* missing ids and all the reaction ids of the model, both in ascending
\* order of the ids; on success the keyword argument is the parsed ids
\* without duplicates in ascending order.
C5_ReactionList == ReactionListChange(IdsAscending)

\* C5 with the listings in ascending order of the quoted ids, as the
\* message has them: holds
C5_ReactionListQuotedOrder == ReactionListChange(Ascending)

\* what C6 says of a change of an enumerated parameter, with Listed(s) the
\* order asked of the listing s of the message
EnumChange(Listed(_)) ==
    (InChange /\ Len(ChangedParameter.enum) > 0)
    => LET enum == ChangedParameter.enum
           value == Get(method_arg_change).new_value
           named == {i \in 1..Len(enum) : CaseInsensitiveEq(value, enum[i].name)}
       IN  IF named # {}
           THEN /\ error.kind = "none"
                /\ \A i \in named :
                       IF ChangedParameter.alg_arg # ""
                       THEN method_kw_args[ChangedParameter.alg_arg] = enum[i].value
                       ELSE model.attrs[ChangedParameter.model_arg] = enum[i].value
           ELSE /\ pc = "failed"
                /\ error.kind = "InvalidParameterValue"
                /\ Range(Unquoted(error.valid)) = {enum[i].name : i \in 1..Len(enum)}
                /\ Len(error.valid) = Len(enum)
                /\ Listed(error.valid)

\* C6: a change of an enumerated parameter whose value is a name of the
\* enumeration in any casing succeeds with the value of that name; any other
\* value fails with InvalidParameterValue listing all the names, sorted.
C6_EnumCaseInsensitive == EnumChange(IdsAscending)

\* C6 with the names in ascending order of the quoted names, as the message
\* has them: holds
C6_EnumQuotedOrder == EnumChange(Ascending)

\* what C8 says of validation, with Listed(s) the order asked of the listing
\* s of the offending targets
Validation(Listed(_)) ==
    At("validate") # {} =>
        LET method == Get(method_props)
            noSymbol == \A i \in 1..Len(variables) : variables[i].symbol = ""
            unmatched == {variables[i].target :
                             i \in {j \in 1..Len(variables) :
                                       ~Supported(method, variables[j])}}
        IN  /\ (noSymbol /\ unmatched # {}) =>
                   /\ pc = "failed"
                   /\ error.kind = "UnsupportedVariable"
                   /\ Range(Unquoted(error.listed)) = unmatched
                   /\ Len(error.listed) = Cardinality(unmatched)
                   /\ Listed(error.listed)
                   /\ Range(error.valid) =
                          {FormatPattern(method.variables[k]) :
                              k \in 1..Len(method.variables)}
            /\ error.kind \notin {"UnsupportedSymbol", "UnsupportedVariable"}
               <=> \A i \in 1..Len(variables) : Supported(method, variables[i])

\* C8: with no symbol among the variables and some target unmatched,
\* validation fails with UnsupportedVariable listing exactly all the
\* unmatched targets in ascending order and every pattern; it succeeds iff
\* every variable has no symbol and a matched target.
C8_AllOffenders == Validation(IdsAscending)

\* C8 with the targets in ascending order of the quoted targets, as the
\* message has them: holds
C8_AllOffendersQuotedOrder == Validation(Ascending)

====
